---- MODULE Spec2Model ----
(***************************************************************************)
(* Model of main.py of sfdc-dependency-scraper: the orchestrator loop of   *)
(* main(), the work-list scan, the reference filter of                     *)
(* parse_field_dependencies_page and the sheet merge.                      *)
(*                                                                         *)
(* The sheet is a sequence of rows (index = openpyxl row number, row 1 is  *)
(* the header).  Of every row the model keeps the cells the program reads  *)
(* or writes: column 1 (label, with its hyperlink hl1), column 2 (api),    *)
(* column 9 (c9), column 10 (c10, with its hyperlink hl10).  The field     *)
(* orig is a history field: the row number the row had in the loaded file  *)
(* (0 for a row the run inserted); the program never reads it.             *)
(***************************************************************************)
EXTENDS Integers, Sequences, FiniteSets, TLC

VARIABLES
    pc,                 \* position of main()
    sheet,              \* ws: the in-memory worksheet
    disk,               \* the workbook file args.file
    fields_to_process,  \* the work list built by the scan
    idx,                \* i of the for loop: WorkItems taken so far
    current_row,        \* current_row of the running iteration
    rows_inserted,      \* the running offset
    parsed,             \* history: number of triples in all_refs at the last parse
    refs,               \* filtered_refs returned by the parser
    page,               \* where the browser page is
    browser,            \* TRUE while the persistent context is open
    saveAttempts,       \* number of calls of wb.save
    exitPath,           \* history: the way the run left main()
    outcomes,           \* history: per WorkItem <<kind, insertion count, sentinel
                        \* written because every parsed triple was excluded>>
    recoveries,         \* history: recovery navigations of the running iteration
    steps,              \* history: the steps taken for the current WorkItem
    frame,              \* history: "none" when find_dependencies_iframe gave None
                        \* for the current WorkItem, "found" when it gave a frame
    ffail,              \* history: why find_field_and_get_dependencies returned False
    fIn,                \* input of the reference filter (FilterSpec)
    fOut,               \* output of the reference filter (FilterSpec)
    fOut2,              \* output of the filter applied to fOut (FilterSpec)
    argId,              \* args.object_id, NoId when the option is absent
    object_id,          \* object_id of main(), NoId before it is resolved
    uIn,                \* url given to extract_object_id_from_url (UrlSpec)
    uOut,               \* what extract_object_id_from_url returned (UrlSpec)
    sStart,             \* args.start_at_label, "" when absent (ScanSpec)
    sLim,               \* args.limit, -1 when absent (ScanSpec)
    eLabel,             \* field_label of click_field_from_table (EscSpec)
    eSel,               \* field_link_selectors built from it (EscSpec)
    nItem,              \* field_label and field_api_name of the WorkItem (NavSpec)
    nAttempt,           \* "label" or "api": the search use_fields_page_quick_find is at
    nSeen,              \* links click_field_from_table has looked at in this attempt
    nPage,              \* the page the browser shows (NavSpec)
    nResult,            \* what use_fields_page_quick_find returned (NavSpec)
    nLog                \* history: the searches triggered and the links clicked

vars == <<pc, sheet, disk, fields_to_process, idx, current_row, rows_inserted,
          parsed, refs, page, browser, saveAttempts, exitPath, outcomes,
          recoveries, ffail, fIn, fOut, fOut2, argId, object_id,
          uIn, uOut, sStart, sLim, eLabel, eSel, nItem, nAttempt, nSeen, nPage,
          nResult, nLog, steps, frame>>

(***************************************************************************)
(* Bounds of the model.                                                    *)
(***************************************************************************)
MaxRows == 3        \* data rows of the loaded sheet (rows 2 .. MaxRows + 1)
MaxRefs == 2        \* data rows of a dependency table in the run
MaxFilterLen == 3   \* length of the filter's input in FilterSpec
MaxSegs == 3        \* path segments of a URL in UrlSpec
MaxScanRows == 3    \* data rows of a sheet in ScanSpec
MaxLabelLen == 3    \* characters of a field label in EscSpec
MaxLinks == 2       \* links click_field_from_table looks at in one attempt (NavSpec)

(***************************************************************************)
(* Values.                                                                 *)
(***************************************************************************)
NoRefsMarker == "No references found"

\* A reference name holding a control character (for instance U+0007):
\* openpyxl refuses such a cell value with IllegalCharacterError.
CtlName == "Name<U+0007>"

IllegalCell(v) == v = CtlName

Ref(t, n, l) == [ref_type |-> t, ref_name |-> n, link |-> l]

BlankRow == [label |-> "", api |-> "", c9 |-> "", c10 |-> "",
             hl1 |-> 0, hl10 |-> "", orig |-> 0]

HeaderRow == [BlankRow EXCEPT !.label = "Field Label", !.api = "API Name", !.orig = 1]

RECURSIVE SeqsUpTo(_, _)
SeqsUpTo(S, n) ==
    IF n = 0 THEN {<<>>}
    ELSE LET shorter == SeqsUpTo(S, n - 1)
         IN  shorter \cup {Append(s, x) : s \in {t \in shorter : Len(t) = n - 1}, x \in S}

\* The data rows a loaded sheet may hold in a run: a field, a reference row
\* of an earlier run, a blank row.  The other rows the scan tells apart are
\* those of ScanSpec.
DataRows == {[BlankRow EXCEPT !.label = "A", !.api = "a__c"],
             [BlankRow EXCEPT !.c9 = "Layout"],
             BlankRow}

InitSheets ==
    {[r \in 1..(MaxRows + 1) |->
          IF r = 1 THEN HeaderRow ELSE [d[r - 1] EXCEPT !.orig = r]] :
       d \in [1..MaxRows -> DataRows]}

\* The rows of a dependency table after the parser's emptiness test.
RunTriples == {Ref("Layout", "Page Layout 1", "url1"),
               Ref("ReportType", "RT1", ""),
               Ref("Layout", CtlName, "")}

FilterTriples == {Ref(t, n, l) : t \in {"Layout", "Flow", "ReportType"},
                                 n \in {"X", "Y"}, l \in {"url1", "url2"}}

(***************************************************************************)
(* parse_field_dependencies_page, lines 399-422: filter and dedup.         *)
(* last_flow is a dict: keys keep the order of their first insertion, a    *)
(* later assignment replaces the value in place.                           *)
(***************************************************************************)
\* Mutant of Excluded: the category name is misspelt.
Excluded_Mut(t) == t = "Report Type"

\* Line 406: the excluded category.
Excluded(t) == t = "ReportType"

\* Mutant of LastWins: the category name is misspelt, no reference is a flow.
LastWins_Mut(t) == t = "flow"

\* Line 411: the category of which only the last occurrence per name is kept.
LastWins(t) == t = "Flow"

\* Mutant of ExtendWithFlows: the kept flows are appended newest key first.
ExtendWithFlows_Mut(filtered, keys, last) ==
    filtered \o [k \in 1..Len(keys) |-> last[keys[Len(keys) + 1 - k]]]

\* Line 419: filtered_refs.extend(last_flow.values()).
ExtendWithFlows(filtered, keys, last) ==
    filtered \o [k \in 1..Len(keys) |-> last[keys[k]]]

RECURSIVE FilterLoop(_, _, _, _, _)
FilterLoop(all, i, filtered, keys, last) ==
    IF i > Len(all)
    THEN ExtendWithFlows(filtered, keys, last)
    ELSE LET r == all[i]
         IN  IF Excluded(r.ref_type)
             THEN FilterLoop(all, i + 1, filtered, keys, last)
             ELSE IF LastWins(r.ref_type)
             THEN FilterLoop(all, i + 1, filtered,
                      IF r.ref_name \in DOMAIN last THEN keys ELSE Append(keys, r.ref_name),
                      [n \in DOMAIN last \cup {r.ref_name} |->
                           IF n = r.ref_name THEN r ELSE last[n]])
             ELSE FilterLoop(all, i + 1, Append(filtered, r), keys, last)

EmptyDict == [n \in {} |-> 0]

FilterRefs(all) == FilterLoop(all, 1, <<>>, <<>>, EmptyDict)

(***************************************************************************)
(* extract_object_id_from_url, lines 56-66.  A URL is "https://host"       *)
(* followed by its path segments, each preceded by "/", and by a last "/"  *)
(* when trailing is TRUE.  A segment is the word ObjectManager ("om"), a   *)
(* run of len letters and digits ("alnum"), or text with another character *)
(* in it ("other").  The pattern /ObjectManager/([a-zA-Z0-9]{15,18})/ is   *)
(* searched from the left: the word between two slashes, then 15 to 18     *)
(* letters or digits, then a slash.                                        *)
(***************************************************************************)
MinIdLen == 15
MaxIdLen == 18

NoId == [kind |-> "none", len |-> 0]

Segments == {[kind |-> "om", len |-> 13], [kind |-> "other", len |-> 7]}
            \cup {[kind |-> "alnum", len |-> n] : n \in {14, 15, 16, 18, 19}}

Urls == [segs : SeqsUpTo(Segments, MaxSegs), trailing : BOOLEAN]

\* Mutant of IdLenOk: only the lengths of the docstring, 15 or 18.
IdLenOk_Mut(n) == n = MinIdLen \/ n = MaxIdLen

\* Line 59: {15,18}.
IdLenOk(n) == MinIdLen <= n /\ n <= MaxIdLen

\* The positions at which the pattern matches: segment i is the word, segment
\* i + 1 is the group and a slash follows it.
MatchAt(url) ==
    {i \in 1..(Len(url.segs) - 1) :
        /\ url.segs[i].kind = "om"
        /\ url.segs[i + 1].kind = "alnum"
        /\ IdLenOk(url.segs[i + 1].len)
        /\ (i + 1 < Len(url.segs) \/ url.trailing)}

\* Lines 60-66: group 1 of the leftmost match, or None.
ExtractObjectId(url) ==
    IF MatchAt(url) = {} THEN NoId
    ELSE url.segs[(CHOOSE i \in MatchAt(url) : \A k \in MatchAt(url) : i <= k) + 1]

(***************************************************************************)
(* click_field_from_table, lines 205-221: the four selectors.  Text is a   *)
(* sequence of characters.  Each selector embeds the label between single  *)
(* quotes; quoted is the text between them.                                *)
(***************************************************************************)
Backslash == "\\"
Quote == "'"

LabelChars == {"a", " ", Quote, Backslash}

\* The characters re.escape (Python 3.7 and later) puts a backslash before,
\* among those of the model: the single quote is not one of them.
ReSpecial(c) == c \in {Backslash, " "}

RECURSIVE ReEscape(_)
\* Line 206: re.escape(field_label).
ReEscape(text) ==
    IF text = <<>> THEN <<>>
    ELSE (IF ReSpecial(Head(text)) THEN <<Backslash, Head(text)>> ELSE <<Head(text)>>)
         \o ReEscape(Tail(text))

RECURSIVE Replace(_, _, _)
\* str.replace(old, new) for a single character old.
Replace(text, old, new) ==
    IF text = <<>> THEN <<>>
    ELSE (IF Head(text) = old THEN new ELSE <<Head(text)>>) \o Replace(Tail(text), old, new)

\* Line 207: field_label.replace("\\", "\\\\").replace("'", "\\'").
CssEscape(text) ==
    Replace(Replace(text, Backslash, <<Backslash, Backslash>>), Quote, <<Backslash, Quote>>)

\* Lines 216-221.
FieldLinkSelectors(field_label) ==
    <<[matcher |-> "a:has-text", quoted |-> CssEscape(field_label)],
      [matcher |-> "th a:text-matches", quoted |-> <<"^">> \o ReEscape(field_label) \o <<"$">>],
      [matcher |-> "td a:text-matches", quoted |-> <<"^">> \o ReEscape(field_label) \o <<"$">>],
      [matcher |-> "a[title=", quoted |-> CssEscape(field_label)]>>

(***************************************************************************)
(* Python string methods, on the strings of the model.                     *)
(***************************************************************************)
\* str.strip() on the labels and link texts of the model.
Strip(str) ==
    CASE str \in {" A", "A ", " A "} -> "A"
      [] str \in {" B", "B "} -> "B"
      [] str = " " -> ""
      [] str = " amount " -> "amount"
      [] OTHER -> str

\* str.lower() on the labels and link texts of the model.
Lower(str) ==
    CASE str = "Amount" -> "amount"
      [] str = "Amount Paid" -> "amount paid"
      [] str = "Amount__c" -> "amount__c"
      [] OTHER -> str

(***************************************************************************)
(* use_fields_page_quick_find and click_field_from_table, lines 149-264,   *)
(* step by step.                                                           *)
(***************************************************************************)
NavItems == {[label |-> l, api_name |-> "Amount__c"] : l \in {"Amount", "amount"}}

\* The visible texts of the links the selectors may give.
LinkTexts == {" amount ", "Amount Paid", "Amount__c"}

\* What follows the click of a link (lines 238-251, 252-254): the page moved
\* to the field's page and its URL holds a field id, or holds none; the click
\* raised with the page where it was; the wait for the new page raised.
ClickOutcomes == {"id", "no_id", "raised_stay", "raised_away"}

\* Lines 180 and 187: the term typed into Quick Find in an attempt.
SearchTerm(item, attempt) == IF attempt = "label" THEN item.label ELSE item.api_name

\* Mutant of Matches: the first link is clicked whatever its text.
Matches_Mut(link_text, field_label) == TRUE

\* Lines 232-236: link_text = inner_text().strip();
\* link_text.lower() == field_label.lower().
Matches(link_text, field_label) == Lower(Strip(link_text)) = Lower(field_label)

\* Mutant of AfterAttempt: the field is given up after the label search.
AfterAttempt_Mut(attempt, gotId) ==
    IF gotId THEN [pc |-> "qf_done", attempt |-> attempt, result |-> "id"]
    ELSE [pc |-> "qf_done", attempt |-> attempt, result |-> "none"]

\* Lines 180-192: where use_fields_page_quick_find goes on when an attempt
\* has ended with a field id or without one.
AfterAttempt(attempt, gotId) ==
    IF gotId THEN [pc |-> "qf_done", attempt |-> attempt, result |-> "id"]
    ELSE IF attempt = "label"
         THEN [pc |-> "qf_search", attempt |-> "api", result |-> "pending"]
    ELSE [pc |-> "qf_done", attempt |-> attempt, result |-> "none"]

\* The page after a click.
PageAfterClick(pg, outcome) == IF outcome = "raised_stay" THEN pg ELSE "detail"

(***************************************************************************)
(* main, lines 494-511: the object id of the run.  --object-id, when it is *)
(* given, is an identifier of 15 characters here; the page the first       *)
(* navigation ends on names the object by an identifier of 18 characters,  *)
(* or by an API name that is no identifier.                                *)
(***************************************************************************)
ArgIds == {NoId, [kind |-> "alnum", len |-> MinIdLen]}

LaunchUrls ==
    {[segs |-> <<[kind |-> "om", len |-> 13], s, [kind |-> "other", len |-> 7]>>,
      trailing |-> FALSE] :
        s \in {[kind |-> "alnum", len |-> MaxIdLen], [kind |-> "alnum", len |-> 14]}}

\* Lines 498-505.
ResolveObjectId(arg, url) == IF arg # NoId THEN arg ELSE ExtractObjectId(url)

\* Mutant of HasObjectId: the run goes on without an object id.
HasObjectId_Mut(id) == TRUE

\* Line 507: if not object_id.
HasObjectId(id) == id # NoId

(***************************************************************************)
(* main, lines 437-464: the scan that builds the work list.                *)
(* start is "" when --start-at-label is absent; limit is -1 when --limit   *)
(* is absent.                                                              *)
(***************************************************************************)
MaxRowOf(ws) == Len(ws)

CellC9(ws, r) == IF r \in 1..Len(ws) THEN ws[r].c9 ELSE ""

\* Lines 442-444: label and label.strip() == args.start_at_label.strip().
StartMatches(ws, start) ==
    {r \in 2..MaxRowOf(ws) : ws[r].label # "" /\ Strip(ws[r].label) = Strip(start)}

\* 0 stands for "start label not found"
StartRow(ws, start) ==
    IF start = "" THEN 2
    ELSE IF StartMatches(ws, start) = {} THEN 0
    ELSE CHOOSE r \in StartMatches(ws, start) : \A q \in StartMatches(ws, start) : r <= q

\* Mutant of Eligible: column 9 is read from the row itself.
Eligible_Mut(ws, r) ==
    /\ r \in 1..Len(ws)
    /\ ws[r].api # ""
    /\ ws[r].label # ""
    /\ CellC9(ws, r) = ""

\* Line 460.
Eligible(ws, r) ==
    /\ r \in 1..Len(ws)
    /\ ws[r].api # ""
    /\ ws[r].label # ""
    /\ CellC9(ws, r + 1) = ""

Min(a, b) == IF a < b THEN a ELSE b

RECURSIVE ScanFrom(_, _, _)
ScanFrom(ws, r, stop) ==
    IF r >= stop THEN <<>>
    ELSE (IF Eligible(ws, r)
          THEN <<[api_name |-> ws[r].api, label |-> ws[r].label, original_row |-> r]>>
          ELSE <<>>) \o ScanFrom(ws, r + 1, stop)

BuildWorkList(ws, start, lim) ==
    LET start_row == StartRow(ws, start)
        limit     == IF lim # -1 THEN lim ELSE MaxRowOf(ws) - start_row + 1
        end_row   == start_row + limit
    IN  ScanFrom(ws, start_row, Min(end_row, MaxRowOf(ws) + 1))

(***************************************************************************)
(* openpyxl primitives used by the merge.                                  *)
(***************************************************************************)
\* Mutant of InsertRows: the rows are inserted one row too high.
InsertRows_Mut(ws, at, amount) ==
    SubSeq(ws, 1, at - 2) \o [k \in 1..amount |-> BlankRow] \o SubSeq(ws, at - 1, Len(ws))

\* ws.insert_rows(at, amount): the rows at index at and below move down.
InsertRows(ws, at, amount) ==
    SubSeq(ws, 1, at - 1) \o [k \in 1..amount |-> BlankRow] \o SubSeq(ws, at, Len(ws))

\* The index (1-based) of the first reference whose cell write raises, or 0.
FirstIllegal(rs) ==
    LET bad == {j \in 1..Len(rs) : IllegalCell(rs[j].ref_type) \/ IllegalCell(rs[j].ref_name)}
    IN  IF bad = {} THEN 0 ELSE CHOOSE j \in bad : \A k \in bad : j <= k

\* Lines 536-541 for the reference j (1-based) written into row R + j.  The
\* write of column 9 raises before storing an illegal type; the write of
\* column 10 raises before storing an illegal name, column 9 being written.
WrittenRow(r) ==
    IF IllegalCell(r.ref_type) THEN BlankRow
    ELSE IF IllegalCell(r.ref_name) THEN [BlankRow EXCEPT !.c9 = r.ref_type]
    ELSE [BlankRow EXCEPT !.c9 = r.ref_type, !.c10 = r.ref_name, !.hl10 = r.link]

\* Lines 535-541: rows inserted below R, references written up to the first
\* write that raises (all of them when none raises).
WriteRefs(ws, R, rs) ==
    LET N    == Len(rs)
        stop == IF FirstIllegal(rs) = 0 THEN N ELSE FirstIllegal(rs)
        ins  == InsertRows(ws, R + 1, N)
    IN  [r \in 1..Len(ins) |->
            IF r \in (R + 1)..(R + stop) THEN WrittenRow(rs[r - R]) ELSE ins[r]]

\* Lines 545-546.
WriteSentinel(ws, R) ==
    LET ins == InsertRows(ws, R + 1, 1)
    IN  [ins EXCEPT ![R + 1].c9 = NoRefsMarker]

\* The data rows of a dependency table: those of RunTriples, and a row whose
\* first cell holds white space only.
TableRows == RunTriples \cup {Ref(" ", "Orphan", "")}

\* Lines 386-389: both texts are stripped; if ref_type and ref_name.
KeepRow(row) == Strip(row.ref_type) # "" /\ Strip(row.ref_name) # ""

\* Lines 382-391: all_refs, the stripped triples of the rows that are kept.
AllRefs(rows) ==
    LET kept == SelectSeq(rows, KeepRow)
    IN  [i \in 1..Len(kept) |->
            Ref(Strip(kept[i].ref_type), Strip(kept[i].ref_name), kept[i].link)]

\* Lines 368-370: return field_url, [].
RefsWithoutFrame == <<>>

\* Mutant of AfterParse: a missing frame is an error of the WorkItem.
AfterParse_Mut(fr) == IF fr = "none" THEN "except" ELSE "retnav"

\* Lines 366-370 and 422: the parser returns, with a frame or without one.
AfterParse(fr) == "retnav"

\* Mutant of HasNext: the loop ends one WorkItem early.
HasNext_Mut(i, wl) == i + 1 < Len(wl)

\* Line 513: the for loop has a WorkItem left after the first i.
HasNext(i, wl) == i < Len(wl)

\* Mutant of NewOffset: the sentinel row is not counted.
NewOffset_Mut(offset, rs) == offset + Len(rs)

\* Lines 542 and 547: the offset after a complete merge of rs.
NewOffset(offset, rs) == IF rs # <<>> THEN offset + Len(rs) ELSE offset + 1

\* Line 514: the WorkItem's row in the sheet as it is now.
CurrentRow(field, offset) == field.original_row + offset

\* Mutant of PageAfterGoto: the navigation goes to the dependency page.
PageAfterGoto_Mut(ok) == IF ok THEN "deps" ELSE "unknown"

\* Lines 526, 551 and 559: page.goto(fields_list_url) returns (ok) or raises.
PageAfterGoto(ok) == IF ok THEN "list" ELSE "unknown"

\* Mutant of AfterRecovery: a failed recovery does not break the loop.
AfterRecovery_Mut(ok) == "loop"

\* Lines 557-564: after the recovery navigation the loop continues or breaks.
AfterRecovery(ok) == IF ok THEN "loop" ELSE "finally"

\* Mutant of AfterFinally: the return of line 509 falls through to the save.
AfterFinally_Mut(path) == "save"

\* Lines 509 and 569-574: a return inside the try block runs the finally
\* block and leaves main(); every other path goes on to the save.
AfterFinally(path) == IF path = "no_object_id" THEN "done" ELSE "save"

\* Lines 530-531: field_cell.hyperlink = field_url.  The URL of a field's
\* dependency page is represented by the field's original row number.
SetFieldLink(ws, R, url) == [ws EXCEPT ![R].hl1 = url]

(***************************************************************************)
(* find_field_and_get_dependencies, lines 149-280, as a function of what   *)
(* the browser shows.  env.box: a Quick Find box is visible; env.t1,       *)
(* env.t2: the search events of the label / API-name search went through;  *)
(* env.c1, env.c2: what click_field_from_table met ("nomatch": no link     *)
(* with the label as text, "noid": a link was clicked and the URL holds no *)
(* field id, "id": clicked and the URL holds a field id); env.dep: the     *)
(* dependency navigation ("ok", "insufficient", "raise").                  *)
(***************************************************************************)
ClickResults == {"nomatch", "noid", "id"}
DepResults == {"ok", "insufficient", "raise"}

Envs == [box : BOOLEAN, t1 : BOOLEAN, c1 : ClickResults,
         t2 : BOOLEAN, c2 : ClickResults, dep : DepResults]

\* use_fields_page_quick_find, lines 174-196: TRUE when a field id is returned.
QuickFindId(env) ==
    /\ env.box
    /\ \/ env.t1 /\ env.c1 = "id"
       \/ env.t2 /\ env.c2 = "id"

\* Mutant of FindResult: the outcome of the dependency navigation is ignored.
FindResult_Mut(env) == QuickFindId(env)

\* find_field_and_get_dependencies, lines 273-280.
FindResult(env) == QuickFindId(env) /\ env.dep = "ok"

\* Why the field was not found: the first transition that failed.
FindFailure(env) ==
    IF ~env.box THEN "no_quick_find"
    ELSE IF ~QuickFindId(env)
         THEN (IF (env.t1 /\ env.c1 = "noid") \/ (env.t2 /\ env.c2 = "noid")
               THEN "no_field_id" ELSE "no_match")
    ELSE IF env.dep = "raise" THEN "dep_raised"
    ELSE IF env.dep = "insufficient" THEN "insufficient"
    ELSE "none"

\* The steps of find_field_and_get_dependencies, lines 273-277, and of
\* navigate_to_field_dependencies_page, lines 98-118, in the order taken: the
\* field id when Quick Find gave one, then the navigation and how it ended.
FindSteps(env) ==
    IF ~QuickFindId(env) THEN <<>>
    ELSE <<"field_id", "dep_nav", IF env.dep = "ok" THEN "dep_ok"
                                  ELSE IF env.dep = "insufficient" THEN "insufficient"
                                  ELSE "dep_raised">>

\* Mutant of AfterFind: an exception of the dependency navigation escapes.
AfterFind_Mut(env) ==
    IF FindResult(env) THEN "parse"
    ELSE IF QuickFindId(env) /\ env.dep = "raise" THEN "except"
    ELSE "skipnav"

\* Lines 522, 549: the branch main() takes on the result.
AfterFind(env) == IF FindResult(env) THEN "parse" ELSE "skipnav"

\* The page the browser is left on.
PageAfterFind(env) ==
    IF ~env.box THEN "list"
    ELSE IF QuickFindId(env)
         THEN (IF env.dep = "raise" THEN "unknown" ELSE "deps")
    ELSE IF (env.t1 /\ env.c1 = "noid") \/ (env.t2 /\ env.c2 = "noid") THEN "detail"
    ELSE "list"

(***************************************************************************)
(* Initial state: main() is entered, the file holds some sheet.            *)
(***************************************************************************)
\* The values the variables of main() keep in the specifications of the
\* pure functions.
MainIdle ==
    /\ disk = <<HeaderRow>>
    /\ sheet = <<HeaderRow>>
    /\ fields_to_process = <<>>
    /\ idx = 0
    /\ current_row = 0
    /\ rows_inserted = 0
    /\ parsed = 0
    /\ refs = <<>>
    /\ page = "none"
    /\ browser = FALSE
    /\ saveAttempts = 0
    /\ exitPath = "running"
    /\ outcomes = <<>>
    /\ recoveries = 0
    /\ ffail = "none"
    /\ steps = <<>>
    /\ frame = "unset"
    /\ argId = NoId
    /\ object_id = NoId

FilterIdle == fIn = <<>> /\ fOut = <<>> /\ fOut2 = <<>>

UrlIdle == uIn = [segs |-> <<>>, trailing |-> FALSE] /\ uOut = NoId

ScanIdle == sStart = "" /\ sLim = -1

EscIdle == eLabel = <<>> /\ eSel = <<>>

NavIdle ==
    /\ nItem = [label |-> "", api_name |-> ""]
    /\ nAttempt = "label"
    /\ nSeen = 0
    /\ nPage = "none"
    /\ nResult = "pending"
    /\ nLog = <<>>

Init ==
    /\ pc = "begin"
    /\ disk \in InitSheets
    /\ sheet = disk
    /\ fields_to_process = <<>>
    /\ idx = 0
    /\ current_row = 0
    /\ rows_inserted = 0
    /\ parsed = 0
    /\ refs = <<>>
    /\ page = "none"
    /\ browser = FALSE
    /\ saveAttempts = 0
    /\ exitPath = "running"
    /\ outcomes = <<>>
    /\ recoveries = 0
    /\ ffail = "none"
    /\ steps = <<>>
    /\ frame = "unset"
    /\ argId \in ArgIds
    /\ object_id = NoId
    /\ FilterIdle
    /\ UrlIdle
    /\ ScanIdle
    /\ EscIdle
    /\ NavIdle

filterVars == <<fIn, fOut, fOut2>>
urlVars == <<uIn, uOut>>
scanVars == <<sStart, sLim>>
escVars == <<eLabel, eSel>>
navVars == <<nItem, nAttempt, nSeen, nPage, nResult, nLog>>
auxVars == <<filterVars, urlVars, scanVars, escVars, navVars>>
loopVars == <<fields_to_process, idx, current_row, rows_inserted, parsed, refs,
              outcomes, recoveries, ffail>>
idVars == <<argId, object_id>>
mainVars == <<sheet, disk, page, browser, saveAttempts, exitPath, loopVars, steps,
              frame, idVars>>

\* Lines 426-435: the file is missing (sys.exit) or the sheet cannot be read.
LoadFails ==
    /\ pc = "begin"
    /\ \E why \in {"no_file", "excel_error"} : exitPath' = why
    /\ pc' = "done"
    /\ UNCHANGED <<sheet, disk, page, browser, saveAttempts, loopVars, steps, frame, idVars, auxVars>>

\* Lines 437-470: the scan.
Scan ==
    /\ pc = "begin"
    /\ \E start \in {"", "A", "B"}, lim \in {-1, 0, 1, 2} :
          IF StartRow(sheet, start) = 0
          THEN /\ pc' = "done"
               /\ exitPath' = "no_start_label"
               /\ UNCHANGED fields_to_process
          ELSE LET wl == BuildWorkList(sheet, start, lim)
               IN  /\ fields_to_process' = wl
                   /\ IF wl = <<>>
                      THEN pc' = "done" /\ exitPath' = "empty_work_list"
                      ELSE pc' = "launch" /\ UNCHANGED exitPath
    /\ UNCHANGED <<sheet, disk, idx, current_row, rows_inserted, parsed, refs, page,
                   browser, saveAttempts, outcomes, recoveries, ffail, steps, frame, idVars, auxVars>>

\* Lines 472-511: browser start, login, first navigation, object id.
Launch ==
    /\ pc = "launch"
    /\ \/ \* launch_persistent_context raises
          /\ pc' = "finally" /\ exitPath' = "top_level_failure"
          /\ UNCHANGED <<browser, page, rows_inserted, object_id>>
       \/ \* a navigation or wait after the launch raises
          /\ pc' = "finally" /\ exitPath' = "top_level_failure"
          /\ browser' = TRUE /\ page' = "unknown"
          /\ UNCHANGED <<rows_inserted, object_id>>
       \/ \* lines 496-511: the object id is resolved, the run ends without it
          \E url \in LaunchUrls :
             /\ browser' = TRUE /\ page' = "list"
             /\ object_id' = ResolveObjectId(argId, url)
             /\ IF HasObjectId(object_id')
                THEN /\ pc' = "loop"
                     /\ rows_inserted' = 0
                     /\ UNCHANGED exitPath
                ELSE /\ pc' = "finally" /\ exitPath' = "no_object_id"
                     /\ UNCHANGED rows_inserted
    /\ UNCHANGED <<sheet, disk, fields_to_process, idx, current_row, parsed, refs,
                   saveAttempts, outcomes, recoveries, ffail, argId, steps, frame, auxVars>>

\* Lines 513-518: the for loop takes the next WorkItem, or ends.
LoopNext ==
    /\ pc = "loop"
    /\ IF HasNext(idx, fields_to_process)
       THEN /\ idx' = idx + 1
            /\ current_row' = CurrentRow(fields_to_process[idx + 1], rows_inserted)
            /\ recoveries' = 0
            /\ ffail' = "none"
            /\ steps' = <<>>
            /\ frame' = "unset"
            /\ pc' = "find"
            /\ UNCHANGED exitPath
       ELSE /\ pc' = "finally"
            /\ exitPath' = "success"
            /\ UNCHANGED <<idx, current_row, recoveries, ffail, steps, frame>>
    /\ UNCHANGED <<sheet, disk, fields_to_process, rows_inserted, parsed, refs, page,
                   browser, saveAttempts, outcomes, idVars, auxVars>>

\* Line 522: find_field_and_get_dependencies.
FindField ==
    /\ pc = "find"
    /\ \E env \in Envs :
          /\ page' = PageAfterFind(env)
          /\ ffail' = FindFailure(env)
          /\ steps' = FindSteps(env)
          /\ pc' = AfterFind(env)
    /\ UNCHANGED <<sheet, disk, fields_to_process, idx, current_row, rows_inserted,
                   parsed, refs, browser, saveAttempts, exitPath, outcomes,
                   recoveries, frame, idVars, auxVars>>

\* Line 523: parse_field_dependencies_page.  find_dependencies_iframe gives no
\* frame (lines 366-370: an empty list is returned), or a frame whose table
\* is read and filtered; or a wait outside the handlers raises.
Parse ==
    /\ pc = "parse"
    /\ \/ /\ frame' = "none"
          /\ parsed' = 0
          /\ refs' = RefsWithoutFrame
          /\ steps' = Append(steps, "parse")
          /\ pc' = AfterParse("none")
       \/ \E rows \in SeqsUpTo(TableRows, MaxRefs) :
             /\ frame' = "found"
             /\ parsed' = Len(AllRefs(rows))
             /\ refs' = FilterRefs(AllRefs(rows))
             /\ steps' = Append(steps, "parse")
             /\ pc' = AfterParse("found")
       \/ /\ pc' = "except"
          /\ steps' = Append(steps, "parse_raised")
          /\ UNCHANGED <<parsed, refs, frame>>
    /\ UNCHANGED <<sheet, disk, fields_to_process, idx, current_row, rows_inserted,
                   page, browser, saveAttempts, exitPath, outcomes, recoveries, ffail,
                   idVars, auxVars>>

\* Lines 526-527: the return navigation after a parse.
ReturnNav ==
    /\ pc = "retnav"
    /\ \E ok \in BOOLEAN :
          /\ page' = PageAfterGoto(ok)
          /\ pc' = IF ok THEN "write" ELSE "except"
          /\ ffail' = IF ok THEN ffail ELSE "return_nav"
    /\ UNCHANGED <<sheet, disk, fields_to_process, idx, current_row, rows_inserted,
                   parsed, refs, browser, saveAttempts, exitPath, outcomes,
                   recoveries, steps, frame, idVars, auxVars>>

\* Lines 530-548: the merge into the sheet.
Write ==
    /\ pc = "write"
    /\ LET linked == SetFieldLink(sheet, current_row, fields_to_process[idx].original_row)
       IN  IF refs # <<>>
           THEN /\ sheet' = WriteRefs(linked, current_row, refs)
                /\ IF FirstIllegal(refs) = 0
                   THEN /\ rows_inserted' = NewOffset(rows_inserted, refs)
                        /\ outcomes' = Append(outcomes, <<"refs", Len(refs), FALSE>>)
                        /\ pc' = "loop"
                   ELSE /\ pc' = "except"
                        /\ UNCHANGED <<rows_inserted, outcomes>>
                /\ IF FirstIllegal(refs) = 0
                   THEN parsed' = 0 /\ refs' = <<>>
                   ELSE UNCHANGED <<parsed, refs>>
           ELSE /\ sheet' = WriteSentinel(linked, current_row)
                /\ rows_inserted' = NewOffset(rows_inserted, refs)
                /\ outcomes' = Append(outcomes, <<"sentinel", 1, parsed > 0>>)
                /\ pc' = "loop"
                /\ parsed' = 0
                /\ refs' = <<>>
    /\ steps' = Append(steps, "write")
    /\ UNCHANGED <<disk, fields_to_process, idx, current_row, page, browser,
                   saveAttempts, exitPath, recoveries, ffail, frame, idVars, auxVars>>

\* Lines 550-552: the field was not found; back to the list.
SkipNav ==
    /\ pc = "skipnav"
    /\ \E ok \in BOOLEAN :
          /\ page' = PageAfterGoto(ok)
          /\ pc' = IF ok THEN "loop" ELSE "except"
          /\ outcomes' = IF ok THEN Append(outcomes, <<"skipped", 0, FALSE>>) ELSE outcomes
          /\ ffail' = IF ok THEN ffail ELSE "return_nav"
    /\ UNCHANGED <<sheet, disk, fields_to_process, idx, current_row, rows_inserted,
                   parsed, refs, browser, saveAttempts, exitPath, recoveries,
                   steps, frame, idVars, auxVars>>

\* Lines 553-564: the handler of an exception of the per-field step.
Recover ==
    /\ pc = "except"
    /\ recoveries' = recoveries + 1
    /\ outcomes' = Append(outcomes, <<"errored", 0, FALSE>>)
    /\ \E ok \in BOOLEAN :
          /\ page' = PageAfterGoto(ok)
          /\ pc' = AfterRecovery(ok)
          /\ exitPath' = IF ok THEN exitPath ELSE "halt"
    /\ parsed' = 0
    /\ refs' = <<>>
    /\ UNCHANGED <<sheet, disk, fields_to_process, idx, current_row, rows_inserted,
                   browser, saveAttempts, ffail, steps, frame, idVars, auxVars>>

\* Lines 569-572: the finally block closes the browser.
Finally ==
    /\ pc = "finally"
    /\ browser' = FALSE
    /\ \/ \* browser.close() raises: the exception leaves main()
          /\ browser
          /\ pc' = "done"
          /\ exitPath' = "close_raised"
       \/ /\ pc' = AfterFinally(exitPath)
          /\ UNCHANGED exitPath
    /\ UNCHANGED <<sheet, disk, page, saveAttempts, loopVars, steps, frame, idVars, auxVars>>

\* Lines 574-579: wb.save, which may raise.
Save ==
    /\ pc = "save"
    /\ saveAttempts' = saveAttempts + 1
    /\ \/ disk' = sheet
       \/ UNCHANGED disk
    /\ pc' = "done"
    /\ UNCHANGED <<sheet, page, browser, exitPath, loopVars, steps, frame, idVars, auxVars>>

Next ==
    \/ LoadFails
    \/ Scan
    \/ Launch
    \/ LoopNext
    \/ FindField
    \/ Parse
    \/ ReturnNav
    \/ Write
    \/ SkipNav
    \/ Recover
    \/ Finally
    \/ Save

Spec == Init /\ [][Next]_vars

(***************************************************************************)
(* FilterSpec: the reference filter as a pure function of its input.       *)
(***************************************************************************)
FilterInit ==
    /\ pc = "filter_in"
    /\ fIn \in SeqsUpTo(FilterTriples, MaxFilterLen)
    /\ fOut = <<>>
    /\ fOut2 = <<>>
    /\ MainIdle
    /\ UrlIdle
    /\ ScanIdle
    /\ EscIdle
    /\ NavIdle

\* Lines 399-422 applied to all_refs = fIn.
ApplyFilter ==
    /\ pc = "filter_in"
    /\ fOut' = FilterRefs(fIn)
    /\ pc' = "filter_out"
    /\ UNCHANGED <<mainVars, urlVars, scanVars, escVars, navVars, fIn, fOut2>>

\* Lines 399-422 applied once more, to all_refs = fOut.
ApplyFilterAgain ==
    /\ pc = "filter_out"
    /\ fOut2' = FilterRefs(fOut)
    /\ pc' = "filter_twice"
    /\ UNCHANGED <<mainVars, urlVars, scanVars, escVars, navVars, fIn, fOut>>

FilterNext == ApplyFilter \/ ApplyFilterAgain

FilterSpec == FilterInit /\ [][FilterNext]_vars

(***************************************************************************)
(* UrlSpec: extract_object_id_from_url as a pure function of its input.    *)
(***************************************************************************)
UrlInit ==
    /\ pc = "url_in"
    /\ uIn \in Urls
    /\ uOut = NoId
    /\ MainIdle
    /\ FilterIdle
    /\ ScanIdle
    /\ EscIdle
    /\ NavIdle

\* Lines 56-66.
ExtractId ==
    /\ pc = "url_in"
    /\ uOut' = ExtractObjectId(uIn)
    /\ pc' = "url_out"
    /\ UNCHANGED <<mainVars, filterVars, scanVars, escVars, navVars, uIn>>

UrlNext == ExtractId

UrlSpec == UrlInit /\ [][UrlNext]_vars

(***************************************************************************)
(* ScanSpec: lines 437-468 as a function of the sheet, --start-at-label    *)
(* and --limit.  exitPath tells whether the start label was found.         *)
(***************************************************************************)
ScanRows == {[BlankRow EXCEPT !.label = l, !.api = a, !.c9 = c] :
                l \in {"", "A", " A"}, a \in {"", "a__c"}, c \in {"", "Layout"}}

ScanSheets ==
    {[r \in 1..(MaxScanRows + 1) |->
          IF r = 1 THEN HeaderRow ELSE [d[r - 1] EXCEPT !.orig = r]] :
       d \in [1..MaxScanRows -> ScanRows]}

ScanInit ==
    /\ pc = "scan_in"
    /\ sheet \in ScanSheets
    /\ disk = sheet
    /\ sStart \in {"", "A", "A ", "B", " "}
    /\ sLim \in {-1, 0, 1, 2}
    /\ fields_to_process = <<>>
    /\ idx = 0
    /\ current_row = 0
    /\ rows_inserted = 0
    /\ parsed = 0
    /\ refs = <<>>
    /\ page = "none"
    /\ browser = FALSE
    /\ saveAttempts = 0
    /\ exitPath = "running"
    /\ outcomes = <<>>
    /\ recoveries = 0
    /\ ffail = "none"
    /\ steps = <<>>
    /\ frame = "unset"
    /\ argId = NoId
    /\ object_id = NoId
    /\ FilterIdle
    /\ UrlIdle
    /\ EscIdle
    /\ NavIdle

\* Lines 437-468.
ScanSheet ==
    /\ pc = "scan_in"
    /\ pc' = "scan_out"
    /\ IF StartRow(sheet, sStart) = 0
       THEN /\ exitPath' = "no_start_label"
            /\ UNCHANGED fields_to_process
       ELSE /\ fields_to_process' = BuildWorkList(sheet, sStart, sLim)
            /\ exitPath' = IF fields_to_process' = <<>> THEN "empty_work_list"
                           ELSE "running"
    /\ UNCHANGED <<sheet, disk, idx, current_row, rows_inserted, parsed, refs, page,
                   browser, saveAttempts, outcomes, recoveries, ffail, steps, frame, idVars,
                   auxVars>>

ScanNext == ScanSheet

ScanSpec == ScanInit /\ [][ScanNext]_vars

(***************************************************************************)
(* EscSpec: the selectors of click_field_from_table for a label.           *)
(***************************************************************************)
EscInit ==
    /\ pc = "esc_in"
    /\ eLabel \in SeqsUpTo(LabelChars, MaxLabelLen)
    /\ eSel = <<>>
    /\ MainIdle
    /\ FilterIdle
    /\ UrlIdle
    /\ ScanIdle
    /\ NavIdle

\* Lines 205-221.
BuildSelectors ==
    /\ pc = "esc_in"
    /\ eSel' = FieldLinkSelectors(eLabel)
    /\ pc' = "esc_out"
    /\ UNCHANGED <<mainVars, filterVars, urlVars, scanVars, navVars, eLabel>>

EscNext == BuildSelectors

EscSpec == EscInit /\ [][EscNext]_vars

(***************************************************************************)
(* NavSpec: one call of use_fields_page_quick_find, entered with the page  *)
(* on the Fields & Relationships list.                                     *)
(***************************************************************************)
NavInit ==
    /\ pc = "qf_box"
    /\ nItem \in NavItems
    /\ nAttempt = "label"
    /\ nSeen = 0
    /\ nPage = "list"
    /\ nResult = "pending"
    /\ nLog = <<>>
    /\ MainIdle
    /\ FilterIdle
    /\ UrlIdle
    /\ ScanIdle
    /\ EscIdle

navOthers == <<mainVars, filterVars, urlVars, scanVars, escVars>>

\* Lines 164-176: the Quick Find box is looked for.
FindBox ==
    /\ pc = "qf_box"
    /\ \/ pc' = "qf_search" /\ UNCHANGED nResult
       \/ pc' = "qf_done" /\ nResult' = "none"
    /\ UNCHANGED <<nItem, nAttempt, nSeen, nPage, nLog, navOthers>>

\* Lines 180 and 187, trigger_search_with_proper_events (120-147): the term
\* of the attempt is typed, or an exception is caught and False returned.
TriggerSearch ==
    /\ pc = "qf_search"
    /\ \E ok \in BOOLEAN :
          /\ nLog' = Append(nLog, [ev |-> "search", attempt |-> nAttempt,
                                   text |-> SearchTerm(nItem, nAttempt),
                                   page |-> nPage, outcome |-> IF ok THEN "ok" ELSE "raised"])
          /\ IF ok
             THEN /\ pc' = "qf_links"
                  /\ UNCHANGED <<nAttempt, nResult>>
             ELSE /\ pc' = AfterAttempt(nAttempt, FALSE).pc
                  /\ nAttempt' = AfterAttempt(nAttempt, FALSE).attempt
                  /\ nResult' = AfterAttempt(nAttempt, FALSE).result
    /\ nSeen' = 0
    /\ UNCHANGED <<nItem, nPage, navOthers>>

\* click_field_from_table, lines 223-264: the next link of the selectors is
\* looked at, or there is none left and None is returned.
InspectLink ==
    /\ pc = "qf_links"
    /\ \/ \* lines 255-264: no selector has a link left
          /\ pc' = AfterAttempt(nAttempt, FALSE).pc
          /\ nAttempt' = AfterAttempt(nAttempt, FALSE).attempt
          /\ nResult' = AfterAttempt(nAttempt, FALSE).result
          /\ UNCHANGED <<nSeen, nPage, nLog>>
       \/ \* lines 230-254: one more link
          /\ nSeen < MaxLinks
          /\ nSeen' = nSeen + 1
          /\ \E text \in LinkTexts :
                IF Matches(text, nItem.label)
                THEN \E outcome \in ClickOutcomes :
                        /\ nLog' = Append(nLog, [ev |-> "click", attempt |-> nAttempt,
                                                 text |-> text, page |-> nPage,
                                                 outcome |-> outcome])
                        /\ nPage' = PageAfterClick(nPage, outcome)
                        /\ IF outcome \in {"id", "no_id"}
                           THEN /\ pc' = AfterAttempt(nAttempt, outcome = "id").pc
                                /\ nAttempt' = AfterAttempt(nAttempt, outcome = "id").attempt
                                /\ nResult' = AfterAttempt(nAttempt, outcome = "id").result
                           ELSE UNCHANGED <<pc, nAttempt, nResult>>
                ELSE UNCHANGED <<pc, nAttempt, nResult, nPage, nLog>>
    /\ UNCHANGED <<nItem, navOthers>>

NavNext == FindBox \/ TriggerSearch \/ InspectLink

NavSpec == NavInit /\ [][NavNext]_vars

(***************************************************************************)
(* Auxiliary definitions of the properties.                                *)
(***************************************************************************)
RECURSIVE SumCounts(_)
SumCounts(os) == IF os = <<>> THEN 0 ELSE os[1][2] + SumCounts(Tail(os))

Kinds(os) == {os[i][1] : i \in 1..Len(os)}

InLoop == pc \in {"loop", "find", "parse", "retnav", "write", "skipnav", "except"}

TypeOK ==
    /\ pc \in {"begin", "launch", "loop", "find", "parse", "retnav", "write",
               "skipnav", "except", "finally", "save", "done"}
    /\ idx \in 0..Len(fields_to_process)
    /\ rows_inserted \in Nat
    /\ saveAttempts \in 0..1

(***************************************************************************)
(* C1: the offset rows_inserted never decreases, and between two WorkItems *)
(* it equals the sum of the insertion counts of the WorkItems handled so   *)
(* far: the number of references for a field written with references, 1    *)
(* for a field written with the sentinel row, 0 for a skipped or errored   *)
(* field.                                                                  *)
(***************************************************************************)
C1_CountsAreByKind ==
    \A i \in 1..Len(outcomes) :
        /\ outcomes[i][1] = "refs" => outcomes[i][2] >= 1
        /\ outcomes[i][1] = "sentinel" => outcomes[i][2] = 1
        /\ outcomes[i][1] \in {"skipped", "errored"} => outcomes[i][2] = 0

C1_OffsetIsSumOfCounts ==
    /\ [](pc = "loop" => /\ Len(outcomes) = idx
                         /\ C1_CountsAreByKind
                         /\ rows_inserted = SumCounts(outcomes))
    /\ [][rows_inserted' >= rows_inserted]_vars

C1_Witness ==
    /\ pc = "loop"
    /\ Len(outcomes) = 3
    /\ Kinds(outcomes) = {"refs", "sentinel", "errored"}
    /\ rows_inserted = 3

(***************************************************************************)
(* C2: every WorkItem ends in exactly one of three outcomes: (a) its       *)
(* references are written into the rows from original_row + rows_inserted  *)
(* + 1 on and rows_inserted grows by their number, (b) one sentinel row is *)
(* written and rows_inserted grows by 1, (c) sheet and rows_inserted are   *)
(* unchanged.  Stated of every step of the run: no step leaves rows in the *)
(* sheet without the matching increase of rows_inserted.                   *)
(***************************************************************************)
C2_RefsWritten ==
    /\ refs # <<>>
    /\ Len(sheet') = Len(sheet) + Len(refs)
    /\ \A j \in 1..Len(refs) :
          /\ sheet'[current_row + j].c9 = refs[j].ref_type
          /\ sheet'[current_row + j].c10 = refs[j].ref_name
    /\ rows_inserted' = rows_inserted + Len(refs)

C2_SentinelWritten ==
    /\ refs = <<>>
    /\ Len(sheet') = Len(sheet) + 1
    /\ sheet'[current_row + 1].c9 = NoRefsMarker
    /\ rows_inserted' = rows_inserted + 1

C2_Untouched == sheet' = sheet /\ rows_inserted' = rows_inserted

C2_ExactlyOneOutcome ==
    [][C2_Untouched \/ C2_RefsWritten \/ C2_SentinelWritten]_vars

(***************************************************************************)
(* C3: whenever a WorkItem is written, the sheet row at index              *)
(* original_row + rows_inserted is the WorkItem's own field row: it        *)
(* carries the WorkItem's label and API name and is the row that was at    *)
(* original_row in the loaded sheet.                                       *)
(***************************************************************************)
C3_RowAddressing ==
    pc = "write" =>
        /\ current_row = fields_to_process[idx].original_row + rows_inserted
        /\ sheet[current_row].orig = fields_to_process[idx].original_row
        /\ sheet[current_row].label = fields_to_process[idx].label
        /\ sheet[current_row].api = fields_to_process[idx].api_name

(***************************************************************************)
(* C4: a merge that completes for the row R and N >= 1 references inserts  *)
(* exactly N rows at R+1..R+N, the rows that were at R+1 and below moving  *)
(* down by N unchanged, writes type and name of the j-th reference into    *)
(* columns 9 and 10 of row R+1+j (j from 0) and adds N to the offset; with *)
(* no reference left after the filter it inserts one row at R+1 holding    *)
(* the sentinel in column 9 and adds 1.                                    *)
(***************************************************************************)
C4_Shifted(n) ==
    /\ Len(sheet') = Len(sheet) + n
    /\ \A r \in 1..Len(sheet) :
          IF r < current_row THEN sheet'[r] = sheet[r]
          ELSE IF r = current_row THEN sheet'[r] = [sheet[r] EXCEPT !.hl1 = sheet'[r].hl1]
          ELSE sheet'[r + n] = sheet[r]
    /\ \A r \in (current_row + 1)..(current_row + n) :
          sheet'[r].label = "" /\ sheet'[r].api = "" /\ sheet'[r].orig = 0

C4_MergeDone ==
    IF refs # <<>>
    THEN /\ C4_Shifted(Len(refs))
         /\ \A j \in 0..(Len(refs) - 1) :
               /\ sheet'[current_row + 1 + j].c9 = refs[j + 1].ref_type
               /\ sheet'[current_row + 1 + j].c10 = refs[j + 1].ref_name
         /\ rows_inserted' = rows_inserted + Len(refs)
    ELSE /\ C4_Shifted(1)
         /\ sheet'[current_row + 1].c9 = NoRefsMarker
         /\ sheet'[current_row + 1].c10 = ""
         /\ rows_inserted' = rows_inserted + 1

RowsOf(ws, o) == {r \in 1..Len(ws) : ws[r].orig = o}

Rescan(ws) == BuildWorkList(ws, "", -1)

C5_Resume ==
    (pc = "done" /\ saveAttempts = 1 /\ disk = sheet) =>
        \A i \in 1..Len(outcomes) :
            LET o == fields_to_process[i].original_row
            IN  /\ outcomes[i][1] \in {"refs", "sentinel"} =>
                      \A k \in 1..Len(Rescan(disk)) :
                          Rescan(disk)[k].original_row \notin RowsOf(disk, o)
                /\ outcomes[i][1] = "skipped" =>
                      \E r \in RowsOf(disk, o) : Eligible(disk, r)

C7_RecoveryStep ==
    pc = "except" =>
        /\ recoveries' = recoveries + 1
        /\ \/ pc' = "loop" /\ page' = "list" /\ exitPath' = exitPath /\ idx' = idx
           \/ pc' = "finally" /\ exitPath' = "halt"

C7_Recovery ==
    /\ [][C7_RecoveryStep]_vars
    /\ [](recoveries <= 1)
    /\ [][pc = "loop" /\ idx < Len(fields_to_process) => pc' = "find" /\ idx' = idx + 1]_vars
    /\ [][exitPath = "halt" =>
            /\ idx' = idx /\ sheet' = sheet /\ rows_inserted' = rows_inserted
            /\ pc' \in {"finally", "save", "done"}]_vars

\* A first WorkItem raised and was recovered, a second one raised and its
\* recovery failed, a third one is left.
C7_Witness ==
    /\ exitPath = "halt"
    /\ idx = 2
    /\ Len(fields_to_process) = 3
    /\ outcomes[1][1] = "errored"
    /\ outcomes[2][1] = "errored"

(***************************************************************************)
(* C8 as stated: a failure at a navigation transition of a WorkItem, the   *)
(* return navigation to the list included, never aborts the run.           *)
(***************************************************************************)
C8_NeverAbortsAsStated == ffail # "none" => exitPath # "halt"

(***************************************************************************)
(* C8 amended: a failure inside find_field_and_get_dependencies (no Quick  *)
(* Find box, no matching link, no field identifier, dependency navigation  *)
(* raising or showing Insufficient Privileges) makes the WorkItem skipped: *)
(* sheet and offset stay as they are and, the return navigation            *)
(* succeeding, the next WorkItem is attempted.  A return navigation that   *)
(* fails raises into the recovery handler, and the run halts only when the *)
(* recovery navigation fails as well.                                      *)
(***************************************************************************)
C8_SkipStep ==
    /\ pc = "find" => /\ (ffail' = "none") = (pc' = "parse")
                      /\ ffail' # "none" => pc' = "skipnav"
    /\ pc = "skipnav" =>
          /\ sheet' = sheet /\ rows_inserted' = rows_inserted /\ idx' = idx
          /\ \/ pc' = "loop" /\ ffail' = ffail /\ outcomes' = Append(outcomes, <<"skipped", 0, FALSE>>)
             \/ pc' = "except" /\ ffail' = "return_nav"
    /\ pc = "loop" /\ idx < Len(fields_to_process) => pc' = "find" /\ idx' = idx + 1

C8_TransitionFailure ==
    /\ [][C8_SkipStep]_vars
    /\ [](exitPath = "halt" /\ ffail # "none" => ffail = "return_nav")

\* Insufficient Privileges on the first WorkItem, a second one is taken.
C8_Witness ==
    /\ pc = "find"
    /\ idx = 2
    /\ outcomes = <<<<"skipped", 0, FALSE>>>>
    /\ sheet = disk

(***************************************************************************)
(* C9: every WorkItem's search starts with the page on the Fields &        *)
(* Relationships list: whatever the previous field attempt did, the loop   *)
(* is re-entered only through a navigation to fields_list_url.             *)
(***************************************************************************)
C9_StartsOnList == pc \in {"loop", "find", "write"} => page = "list"

C9_Witness ==
    /\ pc = "find"
    /\ idx = 3
    /\ Kinds(outcomes) = {"refs", "errored"}

(***************************************************************************)
(* C10: the output of the reference filter holds no reference of type      *)
(* ReportType, whatever the input.                                         *)
(***************************************************************************)
C10_NoReportType ==
    pc = "filter_out" => \A i \in 1..Len(fOut) : fOut[i].ref_type # "ReportType"

C10_Witness ==
    /\ pc = "filter_out"
    /\ Len(fIn) = 3
    /\ fIn[2].ref_type = "ReportType"
    /\ Len(fOut) = 2

(***************************************************************************)
(* C11: the output of the filter is, first, every input reference whose    *)
(* type is neither ReportType nor Flow, in input order and with duplicates *)
(* kept, then exactly one Flow reference per distinct Flow name of the     *)
(* input, which is the last input occurrence of that name.                 *)
(***************************************************************************)
IsOther(r) == r.ref_type # "ReportType" /\ r.ref_type # "Flow"

IsFlow(r) == r.ref_type = "Flow"

FlowNames(rs) == {rs[i].ref_name : i \in {k \in 1..Len(rs) : IsFlow(rs[k])}}

LastFlowIndex(rs, n) ==
    CHOOSE i \in 1..Len(rs) :
        /\ IsFlow(rs[i]) /\ rs[i].ref_name = n
        /\ \A k \in (i + 1)..Len(rs) : ~(IsFlow(rs[k]) /\ rs[k].ref_name = n)

C11_OrderAndLastWins ==
    pc = "filter_out" =>
        LET others == SelectSeq(fIn, IsOther)
            nOther == Len(others)
        IN  /\ Len(fOut) = nOther + Cardinality(FlowNames(fIn))
            /\ SubSeq(fOut, 1, nOther) = others
            /\ \A k \in (nOther + 1)..Len(fOut) :
                  /\ IsFlow(fOut[k])
                  /\ fOut[k].ref_name \in FlowNames(fIn)
                  /\ fOut[k] = fIn[LastFlowIndex(fIn, fOut[k].ref_name)]
                  /\ \A m \in (nOther + 1)..Len(fOut) :
                        fOut[m].ref_name = fOut[k].ref_name => m = k

\* The scenario of the spec: a layout, then the same flow twice with
\* different links; the later link is kept.
C11_Witness ==
    /\ pc = "filter_out"
    /\ Len(fIn) = 3
    /\ fIn[1].ref_type = "Layout"
    /\ IsFlow(fIn[2]) /\ IsFlow(fIn[3])
    /\ fIn[2].ref_name = fIn[3].ref_name
    /\ fIn[2].link = "url1" /\ fIn[3].link = "url2"
    /\ fOut = <<fIn[1], fIn[3]>>

(***************************************************************************)
(* C12: the filter is idempotent: applied to its own output it returns     *)
(* that output, element by element.                                        *)
(***************************************************************************)
C12_Idempotent == pc = "filter_twice" => fOut2 = fOut

\* Two flows of different names and another reference went through twice.
C12_Witness ==
    /\ pc = "filter_twice"
    /\ Len(fOut2) = 3
    /\ IsFlow(fOut2[2]) /\ IsFlow(fOut2[3])
    /\ fIn # fOut

(***************************************************************************)
(* C15 as stated: for every URL that holds a segment of 15 to 18 letters   *)
(* or digits inside an ObjectManager path (somewhere after the word        *)
(* ObjectManager) the function returns such a segment, and for every other *)
(* URL it returns None.                                                    *)
(***************************************************************************)
IdSegments(url) ==
    {j \in 2..Len(url.segs) :
        /\ url.segs[j].kind = "alnum"
        /\ MinIdLen <= url.segs[j].len /\ url.segs[j].len <= MaxIdLen
        /\ \E i \in 1..(j - 1) : url.segs[i].kind = "om"}

DirectIds(url) ==
    {j \in IdSegments(url) :
        /\ url.segs[j - 1].kind = "om"
        /\ (j < Len(url.segs) \/ url.trailing)}

C13_ObjectIdFirst ==
    /\ (InLoop \/ idx > 0) =>
          /\ object_id # NoId
          /\ object_id = IF argId # NoId THEN argId
                         ELSE [kind |-> "alnum", len |-> MaxIdLen]
    /\ exitPath = "no_object_id" =>
          /\ object_id = NoId /\ argId = NoId
          /\ idx = 0 /\ outcomes = <<>>
          /\ sheet = disk /\ saveAttempts = 0

\* Both cases: a run that failed for want of an object id, with work to do.
C13_Witness ==
    /\ exitPath = "no_object_id"
    /\ pc = "done"
    /\ Len(fields_to_process) > 0

\* A WorkItem is being searched with the object id taken from the URL.
C13_WitnessFromUrl ==
    /\ pc = "find"
    /\ argId = NoId
    /\ object_id = [kind |-> "alnum", len |-> MaxIdLen]

(***************************************************************************)
(* C14: the work list holds, in increasing order and with the label and    *)
(* the API name of the sheet, exactly the rows r with                      *)
(* start_row <= r < start_row + limit and r <= max_row whose label and API *)
(* name are not empty and whose next row has an empty column 9; start_row  *)
(* is the first row from 2 on whose trimmed label is the trimmed start     *)
(* label, or 2 without a start label; limit is all the remaining rows when *)
(* --limit is absent, so an explicit limit bounds the number of WorkItems. *)
(***************************************************************************)
C14_LabelRows ==
    {r \in 2..Len(sheet) : sheet[r].label # "" /\ Strip(sheet[r].label) = Strip(sStart)}

C14_StartRow ==
    IF sStart = "" THEN 2
    ELSE CHOOSE r \in C14_LabelRows : \A q \in C14_LabelRows : r <= q

C14_Limit == IF sLim = -1 THEN Len(sheet) - C14_StartRow + 1 ELSE sLim

C14_Rows ==
    {r \in C14_StartRow..(C14_StartRow + C14_Limit - 1) :
        /\ r <= Len(sheet)
        /\ sheet[r].label # ""
        /\ sheet[r].api # ""
        /\ (r + 1 <= Len(sheet) => sheet[r + 1].c9 = "")}

RECURSIVE EndsString(_)
\* TRUE when the quoted string ends before the end of the text, or the last
\* backslash of the text escapes the closing quote.
EndsString(text) ==
    IF text = <<>> THEN FALSE
    ELSE IF Head(text) = Quote THEN TRUE
    ELSE IF Head(text) = Backslash
         THEN (IF Len(text) = 1 THEN TRUE ELSE EndsString(Tail(Tail(text))))
    ELSE EndsString(Tail(text))

RECURSIVE Unquote(_)
\* The string a quoted text stands for: a backslash gives the next character.
Unquote(text) ==
    IF text = <<>> THEN <<>>
    ELSE IF Head(text) = Backslash /\ Len(text) > 1
         THEN <<text[2]>> \o Unquote(Tail(Tail(text)))
    ELSE <<Head(text)>> \o Unquote(Tail(text))

C16_QuotesEscaped ==
    pc = "esc_out" =>
        \A k \in 1..Len(eSel) :
            /\ ~EndsString(eSel[k].quoted)
            /\ eSel[k].matcher \in {"a:has-text", "a[title="} =>
                  Unquote(eSel[k].quoted) = eLabel

(***************************************************************************)
(* C17: once the Quick Find box is found the label search is triggered     *)
(* first and the API-name search second, each at most once; None is        *)
(* returned only after both were attempted; and when an attempt gives a    *)
(* field id, that click is the last thing done for the WorkItem.           *)
(***************************************************************************)
Searches(log) == SelectSeq(log, LAMBDA e : e.ev = "search")

C17_SearchFallback ==
    /\ Len(Searches(nLog)) <= 2
    /\ Len(Searches(nLog)) >= 1 =>
          /\ nLog[1].ev = "search"
          /\ Searches(nLog)[1].attempt = "label"
          /\ Searches(nLog)[1].text = nItem.label
    /\ Len(Searches(nLog)) = 2 =>
          /\ Searches(nLog)[2].attempt = "api"
          /\ Searches(nLog)[2].text = nItem.api_name
    /\ (pc = "qf_done" /\ nResult = "none" /\ nLog # <<>>) => Len(Searches(nLog)) = 2
    /\ \A i \in 1..Len(nLog) :
          (nLog[i].ev = "click" /\ nLog[i].outcome = "id") =>
              /\ i = Len(nLog)
              /\ pc = "qf_done"
              /\ nResult = "id"
    /\ nResult = "id" => (nLog # <<>> /\ nLog[Len(nLog)].outcome = "id")

\* None after the label search raised and the API-name search found no link.
C17_Witness ==
    /\ pc = "qf_done"
    /\ nResult = "none"
    /\ Len(nLog) = 2
    /\ nLog[1].outcome = "raised"
    /\ nLog[2].attempt = "api" /\ nLog[2].outcome = "ok"

\* The field id comes from the API-name search after the label search gave
\* no id.
C17_WitnessRetry ==
    /\ pc = "qf_done"
    /\ nResult = "id"
    /\ Len(Searches(nLog)) = 2
    /\ nLog[Len(nLog)].attempt = "api"

(***************************************************************************)
(* C18 as stated: the trimmed text of every clicked link equals, without   *)
(* regard to case, the term typed into Quick Find in that attempt.         *)
(***************************************************************************)
C18_ClickedIsSearchTerm ==
    \A i \in 1..Len(nLog) :
        nLog[i].ev = "click" =>
            Lower(Strip(nLog[i].text)) = Lower(SearchTerm(nItem, nLog[i].attempt))

(***************************************************************************)
(* C18 amended: the trimmed text of every clicked link equals, without     *)
(* regard to case, the field label, in the label attempt and in the        *)
(* API-name attempt alike.                                                 *)
(***************************************************************************)
C18_ClickedIsLabel ==
    \A i \in 1..Len(nLog) :
        nLog[i].ev = "click" => Lower(Strip(nLog[i].text)) = Lower(nItem.label)

\* A link is clicked in the API-name attempt; its text is the label.
C18_Witness ==
    /\ nLog # <<>>
    /\ nLog[Len(nLog)].ev = "click"
    /\ nLog[Len(nLog)].attempt = "api"
    /\ nLog[Len(nLog)].text = " amount "
    /\ nItem.label = "Amount"

(***************************************************************************)
(* C19: every search and every click of a link happens with the page on    *)
(* the Fields & Relationships list: nothing is searched or clicked after   *)
(* a click has taken the page away from the list.                          *)
(***************************************************************************)
C19_OnListOnly ==
    \A i \in 1..Len(nLog) : nLog[i].page = "list"

(***************************************************************************)
(* C20: for each WorkItem the dependency page is opened only right after a *)
(* field id was extracted, the parser runs only right after that           *)
(* navigation ended without the Insufficient Privileges marker, and the    *)
(* sheet is changed only after the parser returned.  When the marker was   *)
(* seen the WorkItem is neither parsed nor written, no step changes the    *)
(* sheet or the offset, and its insertion count is 0.                      *)
(***************************************************************************)
Marker == \E i \in 1..Len(steps) : steps[i] = "insufficient"

C20_Ordered ==
    /\ \A i \in 1..Len(steps) :
          /\ steps[i] = "dep_nav" => (i > 1 /\ steps[i - 1] = "field_id")
          /\ steps[i] \in {"parse", "parse_raised"} => (i > 1 /\ steps[i - 1] = "dep_ok")
          /\ steps[i] = "write" => (i > 1 /\ steps[i - 1] = "parse")
    /\ pc = "parse" => (steps # <<>> /\ steps[Len(steps)] = "dep_ok")
    /\ pc \in {"retnav", "write"} => (steps # <<>> /\ steps[Len(steps)] = "parse")
    /\ Marker =>
          /\ pc \notin {"parse", "retnav", "write"}
          /\ \A i \in 1..Len(steps) : steps[i] \notin {"parse", "parse_raised", "write"}
          /\ (pc = "loop" /\ Len(outcomes) = idx) => outcomes[idx][2] = 0

C20_StepOrder ==
    /\ []C20_Ordered
    /\ [][sheet' # sheet => (steps # <<>> /\ steps[Len(steps)] = "parse")]_vars
    /\ [][(Marker /\ Marker') => (sheet' = sheet /\ rows_inserted' = rows_inserted)]_vars

\* The second WorkItem met the marker after the first was written with its
\* references; it was skipped with nothing inserted.
C20_Witness ==
    /\ pc = "loop"
    /\ Marker
    /\ Len(outcomes) = 2
    /\ outcomes[1][1] = "refs"
    /\ outcomes[2] = <<"skipped", 0, FALSE>>
    /\ rows_inserted = outcomes[1][2]

C21_SentinelStep ==
    /\ pc' = "loop"
    /\ rows_inserted' = rows_inserted + 1
    /\ Len(sheet') = Len(sheet) + 1
    /\ sheet'[current_row + 1].c9 = NoRefsMarker
    /\ sheet'[current_row + 1].c10 = ""
    /\ sheet'[current_row + 1].label = "" /\ sheet'[current_row + 1].api = ""
    /\ \A r \in 1..(current_row - 1) : sheet'[r] = sheet[r]
    /\ \A r \in (current_row + 1)..Len(sheet) : sheet'[r + 1] = sheet[r]
    /\ outcomes' = Append(outcomes, <<"sentinel", 1, FALSE>>)

C22_TakeStep ==
    \/ idx' = idx
    \/ /\ idx' = idx + 1
       /\ pc = "loop" /\ pc' = "find"
       /\ Len(outcomes) = idx
       /\ current_row' = fields_to_process[idx'].original_row + rows_inserted

C22_NoneLeftAsStated == (pc = "done" /\ idx > 0) => idx = Len(fields_to_process)

(***************************************************************************)
(* C22 amended: the rows of the work list increase; WorkItems are taken    *)
(* one at a time, each once, in work-list order, the next one only when    *)
(* the one before has its outcome; when the loop runs to its end every     *)
(* WorkItem has been taken and has one outcome.  WorkItems are left        *)
(* unprocessed only when the run ends for a failed recovery navigation,    *)
(* for want of an object id or for an exception of the browser start.      *)
(***************************************************************************)
C22_Sequential ==
    /\ [][C22_TakeStep]_vars
    /\ [][fields_to_process' = fields_to_process \/ pc = "begin"]_vars
    /\ [][Len(outcomes') \in {Len(outcomes), Len(outcomes) + 1}]_vars
    /\ [](\A i \in 1..(Len(fields_to_process) - 1) :
             fields_to_process[i].original_row < fields_to_process[i + 1].original_row)
    /\ [](Len(outcomes) \in {idx - 1, idx} /\ (pc = "loop" => Len(outcomes) = idx))
    /\ [](exitPath = "success" =>
             (idx = Len(fields_to_process) /\ Len(outcomes) = idx))
    /\ [][(pc # "finally" /\ pc' = "finally" /\ idx < Len(fields_to_process)) =>
             \/ pc = "except" /\ exitPath' = "halt"
             \/ pc = "launch" /\ exitPath' \in {"no_object_id", "top_level_failure"}]_vars

\* The loop ran to its end over three WorkItems with three kinds of outcome.
C22_Witness ==
    /\ pc = "done"
    /\ exitPath = "success"
    /\ idx = 3
    /\ Len(fields_to_process) = 3
    /\ Kinds(outcomes) = {"refs", "skipped", "errored"}

(***************************************************************************)
(* C23: a WorkItem that ends skipped or in the exception path leaves the   *)
(* sheet as it was.  Stated of every step: the sheet (rows, cell values,   *)
(* hyperlinks) changes only in a merge that runs to its end, which gives   *)
(* the WorkItem the outcome "refs" or "sentinel"; no step into or inside   *)
(* the skip path or the exception path changes it.                         *)
(***************************************************************************)
C23_ChangeStep ==
    /\ pc = "write" /\ pc' = "loop"
    /\ Len(outcomes') = idx
    /\ outcomes'[idx][1] \in {"refs", "sentinel"}

C23_FrameEffect == [][sheet' # sheet => C23_ChangeStep]_vars

(***************************************************************************)
(* C24: every row the run has inserted (orig = 0: it was not in the loaded *)
(* file) has a value in column 9 and none in columns 1 and 2; so in a scan *)
(* of the sheet as it is, no inserted row is a WorkItem, and the row above *)
(* an inserted row is none either.                                         *)
(***************************************************************************)
Inserted(ws) == {r \in 1..Len(ws) : ws[r].orig = 0}

C24_InsertedRows ==
    \A r \in Inserted(sheet) :
        /\ sheet[r].c9 # ""
        /\ sheet[r].label = "" /\ sheet[r].api = ""
        /\ \A k \in 1..Len(Rescan(sheet)) :
              Rescan(sheet)[k].original_row \notin {r - 1, r}
====
